---------------------------- MODULE Spec2Model ----------------------------
(***************************************************************************)
(* State-machine model of the nim-go-sdk hackathon starter:                *)
(*   - the Confirmation Gateway (pending side-effecting actions),          *)
(*   - the Notification Broadcast Hub (SSEBroadcaster, dashboard_api.go),  *)
(*   - the Session Manager and Message Stream Assembler                    *)
(*     (useNimWebSocket.ts).                                               *)
(* The three subsystems share no state; each has its own specification.    *)
(***************************************************************************)
EXTENDS Integers, Sequences, FiniteSets, TLC

VARIABLES
    \* ---- Confirmation Gateway ----
    now,            \* logical clock of the gateway
    store,          \* action_id -> PendingAction record (with its status)
    nextActionId,   \* next action_id to hand out
    lastResult,     \* what the last register/confirm/cancel call returned
    \* ---- Notification Broadcast Hub ----
    clients,        \* b.clients: the channels registered with the hub
    mailbox,        \* buffered content of each handler's clientChan
    closed,         \* how many times close was called on each clientChan
    hpc,            \* where each handleSSE call stands
    broadcast,      \* buffered content of b.broadcast
    published,      \* number of NotifyDashboardUpdate calls so far
    taken,          \* the last event each handler took from its clientChan
    \* ---- Session Manager and Message Stream Assembler (useNimWebSocket) ----
    messages,               \* useState: the visible transcript
    isStreaming,            \* useState
    connectionState,        \* useState
    confirmationRequest,    \* useState: NoRequest (null) or the request shown
    wsRef,                  \* 0 (null) or the slot of the current WebSocket
    streamingContentRef,
    conversationIdRef,      \* 0 (null) or a conversation ID
    isMountedRef,
    reconnectAttemptsRef,
    reconnectTimeoutRef,    \* 0 (null) or the slot whose timer it holds
    hasResumeFailedRef,
    storedConversationId,   \* localStorage[STORAGE_KEY]; 0 when absent
    storedToken,            \* access token in localStorage; 0 when absent
    jwt,                    \* the jwt prop of the hook; 0 when null
    unmounted,              \* the component using the hook is gone
    refresh,                \* the refreshAccessToken call in flight, if any
    ws,                     \* the WebSocket objects created by connect
    live,                   \* conversations the backend can find
    nextConv,               \* next conversation ID the backend hands out
    notFound,               \* conversation IDs reported as not found
    resumeFailed,           \* a resume failed, no new_conversation sent since
    refreshFailed,          \* a refresh failed, no credentials stored since
    surfaced,               \* the message the last step passed to onError
    scheduled,              \* the delay the last step passed to setTimeout
    exhausted,              \* the reconnect budget ran out, no reset since
    turn,                   \* events seen since the last user message
    \* ---- ConfirmationCard ----
    clock,                  \* Date.now() of the client
    timeLeft,               \* useState of the card
    cleared,                \* how the last request shown left the UI
    cancelsSent             \* cancel frames sent for the last request shown

gwVars == <<now, store, nextActionId, lastResult>>
hubVars == <<clients, mailbox, closed, hpc, broadcast, published, taken>>
connVars == <<connectionState, wsRef, ws, reconnectAttemptsRef, reconnectTimeoutRef>>
asmVars == <<messages, isStreaming, confirmationRequest, streamingContentRef,
             turn>>
convVars == <<conversationIdRef, hasResumeFailedRef, storedConversationId,
              live, nextConv, notFound, resumeFailed>>
authVars == <<storedToken, jwt, refresh, refreshFailed>>
cardVars == <<clock, timeLeft, cleared, cancelsSent>>
sessVars == <<connVars, asmVars, convVars, authVars, isMountedRef, unmounted,
              exhausted, surfaced, scheduled, cardVars>>

(***************************************************************************)
(*                         CONFIRMATION GATEWAY                            *)
(***************************************************************************)

\* Bounds of the gateway model (time is counted in abstract ticks).
MaxTime == 4
MaxActions == 2
BucketWidth == 2
TTL == 1

Users == {"userA", "userB"}
Tools == {"send_money"}
\* A tool input is a list of fields; the same fields in another order are
\* the same request.
Inputs == {<<"amount", "to">>, <<"to", "amount">>}

NoResult == [op |-> "none", user |-> "none", id |-> 0, result |-> "none",
             pre |-> "none", late |-> FALSE]

\* Canonical form of an input: its fields without their order.
Canonicalize(input) == {input[i] : i \in 1..Len(input)}

\* Current time rounded down to the bucket width.
TimeBucket(t) == t \div BucketWidth

\* Stable hash over (user, tool, canonicalized input, time bucket); the hash
\* is collision free, so the hashed tuple stands for it.
IdempotencyKey(user, tool, input, t) ==
    <<user, tool, Canonicalize(input), TimeBucket(t)>>

PendingSet == {id \in DOMAIN store : store[id].status = "pending"}

\* The expiry timestamp of action a has passed.
IsExpired(a, t) == t > a.expires

\* Mutant of ExistingFor: the lookup compares the wrong field and never
\* finds the pending duplicate.
ExistingForWrongField(key) ==
    {id \in PendingSet : store[id].key = key /\ store[id].user # key[1]}

\* The unresolved actions register treats as duplicates of key.
ExistingFor(key) == {id \in PendingSet : store[id].key = key}

\* register(user, tool, input, summary) -> PendingAction
Register(user, tool, input) ==
    LET key == IdempotencyKey(user, tool, input, now)
        dup == ExistingFor(key)
    IN  IF dup # {}
        THEN \E id \in dup :
               /\ lastResult' = [op |-> "register", user |-> user, id |-> id,
                                 result |-> "OK", pre |-> "pending",
                                 late |-> IsExpired(store[id], now)]
               /\ UNCHANGED <<now, store, nextActionId, hubVars, sessVars>>
        ELSE /\ nextActionId <= MaxActions
             /\ store' = [id \in DOMAIN store \cup {nextActionId} |->
                            IF id = nextActionId
                            THEN [user |-> user, tool |-> tool, key |-> key,
                                  expires |-> now + TTL, status |-> "pending"]
                            ELSE store[id]]
             /\ nextActionId' = nextActionId + 1
             /\ lastResult' = [op |-> "register", user |-> user,
                               id |-> nextActionId, result |-> "OK",
                               pre |-> "absent", late |-> FALSE]
             /\ UNCHANGED <<now, hubVars, sessVars>>

\* Status of id as seen by user: "absent" if there is no such action of
\* that user.
StatusFor(user, id) ==
    IF id \in DOMAIN store /\ store[id].user = user
    THEN store[id].status ELSE "absent"

\* Mutant of ConfirmOutcome: only a missing action is rejected, an action
\* already resolved is confirmed again.
ConfirmOutcomeNoStatusCheck(status, late) ==
    IF status = "absent" THEN "NotFound"
    ELSE IF late THEN "Expired"
    ELSE "OK"

\* Mutant of ConfirmOutcome: the expiry timestamp is not checked.
ConfirmOutcomeNoExpiryCheck(status, late) ==
    IF status # "pending" THEN "NotFound" ELSE "OK"

\* Outcome of confirm on an action of the given status.
ConfirmOutcome(status, late) ==
    IF status # "pending" THEN "NotFound"
    ELSE IF late THEN "Expired"
    ELSE "OK"

\* confirm(user, action_id)
Confirm(user, id) ==
    LET st == StatusFor(user, id)
        late == st # "absent" /\ IsExpired(store[id], now)
        res == ConfirmOutcome(st, late)
    IN  /\ lastResult' = [op |-> "confirm", user |-> user, id |-> id,
                          result |-> res, pre |-> st, late |-> late]
        /\ store' = IF res = "OK"
                    THEN [store EXCEPT ![id].status = "confirmed"]
                    ELSE IF res = "Expired"
                    THEN [store EXCEPT ![id].status = "expired"]
                    ELSE store
        /\ UNCHANGED <<now, nextActionId, hubVars, sessVars>>

\* Mutant of CancelOutcomes: an action no longer in the pending set is
\* reported as not found.
CancelOutcomesPendingOnly(status) ==
    IF status = "pending" THEN {"OK"} ELSE {"NotFound"}

\* Outcomes of cancel on an action of the given status: absent fails,
\* pending is cancelled, already cancelled or confirmed is a no-op success;
\* for an action removed by expiry neither outcome is prescribed.
CancelOutcomes(status) ==
    CASE status = "absent" -> {"NotFound"}
      [] status = "pending" -> {"OK"}
      [] status \in {"cancelled", "confirmed"} -> {"OK"}
      [] OTHER -> {"OK", "NotFound"}

\* cancel(user, action_id)
Cancel(user, id) ==
    LET st == StatusFor(user, id)
    IN  \E res \in CancelOutcomes(st) :
          /\ lastResult' = [op |-> "cancel", user |-> user, id |-> id,
                            result |-> res, pre |-> st,
                            late |-> st # "absent" /\ IsExpired(store[id], now)]
          /\ store' = IF st = "pending" /\ res = "OK"
                      THEN [store EXCEPT ![id].status = "cancelled"]
                      ELSE store
          /\ UNCHANGED <<now, nextActionId, hubVars, sessVars>>

\* Mutant of SweepTargets: the sweep finds nothing to remove.
SweepTargetsNone == {}

\* The actions one pass of the expiry sweep removes.
SweepTargets == {id \in PendingSet : IsExpired(store[id], now)}

\* Expiry sweep: remove/deny every action whose expiry has passed.
ExpirySweep ==
    /\ SweepTargets # {}
    /\ store' = [id \in DOMAIN store |->
                    IF id \in SweepTargets
                    THEN [store[id] EXCEPT !.status = "expired"]
                    ELSE store[id]]
    /\ UNCHANGED <<now, nextActionId, lastResult, hubVars, sessVars>>

\* Time passes.
Tick ==
    /\ now < MaxTime
    /\ now' = now + 1
    /\ UNCHANGED <<store, nextActionId, lastResult, hubVars, sessVars>>

(***************************************************************************)
(*                       NOTIFICATION BROADCAST HUB                        *)
(***************************************************************************)

\* Bounds of the hub model: handleSSE calls and published events.
MaxClients == 2
MaxPublish == 11
MaxBurst == 101
MaxQueued == 3

\* Channel capacities.
BroadcastCap == 100
MailboxCap == 10

Handlers == 1..MaxClients

\* Mutant of Offer: the event jumps the queue of the channel.
OfferFront(box, e) == IF Len(box) < MailboxCap THEN <<e>> \o box ELSE box

\* Non-blocking send of event e on a buffered channel: "select { case
\* client <- event: default: }".
Offer(box, e) == IF Len(box) < MailboxCap THEN Append(box, e) ELSE box

\* Mutant of Dispatch: the send blocks on a full mailbox, so the event
\* reaches nobody while some subscriber is full.
DispatchBlocking(boxes, subs, e) ==
    IF \E c \in subs : Len(boxes[c]) >= MailboxCap
    THEN boxes
    ELSE [c \in DOMAIN boxes |->
            IF c \in subs THEN Append(boxes[c], e) ELSE boxes[c]]

\* The broadcast case of run: offer the event to every registered client.
Dispatch(boxes, subs, e) ==
    [c \in DOMAIN boxes |-> IF c \in subs THEN Offer(boxes[c], e) ELSE boxes[c]]

\* handleSSE up to the send on b.register, which blocks until run takes it.
HandleSSEStart(h) ==
    /\ hpc[h] = "idle"
    /\ hpc' = [hpc EXCEPT ![h] = "registering"]
    /\ UNCHANGED <<clients, mailbox, closed, broadcast, published, taken, gwVars, sessVars>>

\* run, case client := <-b.register.
RunRegister(h) ==
    /\ hpc[h] = "registering"
    /\ clients' = clients \cup {h}
    /\ hpc' = [hpc EXCEPT ![h] = "streaming"]
    /\ UNCHANGED <<mailbox, closed, broadcast, published, taken, gwVars, sessVars>>

\* handleSSE returns (request context done, or no flusher): the deferred
\* send on b.unregister blocks until run takes it.
HandleSSEReturn(h) ==
    /\ hpc[h] = "streaming"
    /\ hpc' = [hpc EXCEPT ![h] = "unregistering"]
    /\ UNCHANGED <<clients, mailbox, closed, broadcast, published, taken, gwVars, sessVars>>

\* Mutant of UnregisterCase: the channel is deleted and closed without
\* looking it up in the client set.
UnregisterCaseNoLookup(h) ==
    /\ clients' = clients \ {h}
    /\ closed' = [closed EXCEPT ![h] = @ + 1]

\* The body of run's unregister case: delete and close the channel if it is
\* a registered client.
UnregisterCase(h) ==
    IF h \in clients
    THEN /\ clients' = clients \ {h}
         /\ closed' = [closed EXCEPT ![h] = @ + 1]
    ELSE UNCHANGED <<clients, closed>>

\* Mutant of RunUnregister: run takes the unregister request only once the
\* channel has been drained.
RunUnregisterDrained(h) ==
    /\ hpc[h] = "unregistering"
    /\ mailbox[h] = << >>
    /\ UnregisterCase(h)
    /\ hpc' = [hpc EXCEPT ![h] = "done"]
    /\ UNCHANGED <<mailbox, broadcast, published, taken, gwVars, sessVars>>

\* run, case client := <-b.unregister, for the send deferred by handleSSE.
RunUnregister(h) ==
    /\ hpc[h] = "unregistering"
    /\ UnregisterCase(h)
    /\ hpc' = [hpc EXCEPT ![h] = "done"]
    /\ UNCHANGED <<mailbox, broadcast, published, taken, gwVars, sessVars>>

\* run, case client := <-b.unregister, for a channel that was unregistered
\* before and is sent on b.unregister once more.
RunUnregisterAgain(h) ==
    /\ hpc[h] = "done"
    /\ UnregisterCase(h)
    /\ UNCHANGED <<hpc, mailbox, broadcast, published, taken, gwVars, sessVars>>

\* run, case event := <-b.broadcast.
RunBroadcast ==
    /\ broadcast # << >>
    /\ mailbox' = Dispatch(mailbox, clients, Head(broadcast))
    /\ broadcast' = Tail(broadcast)
    /\ UNCHANGED <<clients, closed, hpc, published, taken, gwVars, sessVars>>

\* NotifyDashboardUpdate: non-blocking send on b.broadcast. Events are
\* numbered in publish order.
NotifyDashboardUpdate ==
    /\ published' = published + 1
    /\ broadcast' = IF Len(broadcast) < BroadcastCap
                    THEN Append(broadcast, published + 1)
                    ELSE broadcast
    /\ UNCHANGED <<clients, mailbox, closed, hpc, taken, gwVars, sessVars>>

\* handleSSE loop, case event := <-clientChan: write the event to the stream.
HandleSSEEvent(h) ==
    /\ hpc[h] = "streaming"
    /\ mailbox[h] # << >>
    /\ mailbox' = [mailbox EXCEPT ![h] = Tail(@)]
    /\ taken' = [taken EXCEPT ![h] = Head(mailbox[h])]
    /\ UNCHANGED <<clients, closed, hpc, broadcast, published, gwVars, sessVars>>

(***************************************************************************)
(*        SESSION MANAGER AND MESSAGE STREAM ASSEMBLER (useNimWebSocket)   *)
(***************************************************************************)

\* Bounds of the session model.
MaxWs == 2          \* WebSocket objects alive (not yet collected) at a time
MaxConv == 2        \* conversation IDs the backend hands out
MaxTok == 2         \* access tokens issued (login, then refreshes)
MaxMsgs == 3        \* messages in the transcript
MaxLen == 2         \* fragments accumulated in streamingContentRef

\* "if (reconnectAttemptsRef.current < 5)"
MaxReconnectAttempts == 5

\* "Math.min(1000 * Math.pow(2, reconnectAttemptsRef.current), 10000)"
BaseDelay == 1000

\* Bounds of the card model: the client clock runs over 0..MaxClock and a
\* request is shown Window ticks before its expiry.
MaxClock == 3
Window == 2
MaxDelay == 10000

Slots == 1..MaxWs
NoTimer == -1
NoSocket == [rs |-> "NONE", tok |-> 0, sent |-> {}, timer |-> NoTimer]
NoRefresh == [kind |-> "none", jwt |-> 0]
\* Messages passed to onError.
NoError == "none"
ConnectionError == "WebSocket connection error"
ReconnectFailed == "Failed to reconnect after multiple attempts"
SessionExpired == "Session expired. Please log in again."

NoTurn == [phase |-> "idle", base |-> 0, final |-> << >>]

\* Client frames (type, conversationId).
NewConversation == <<"new_conversation", 0>>
ResumeConversation(id) == <<"resume_conversation", id>>
UserMessage == <<"message", 0>>
ConfirmFrame(actionId) == <<"confirm", actionId>>
CancelFrame(actionId) == <<"cancel", actionId>>

\* confirmationRequest when no request is shown (null).
NoRequest == [actionId |-> 0, expiresAt |-> 0]

\* Text is a sequence of fragments.
Fragments == {<<"a">>, <<"█">>}
FinalTexts == {<<"a">>, <<"b">>}
UserInputs == {<<" ">>, <<" ", "q", " ">>}
ErrorContents == {<<"Conversation not found">>,
                  <<"conversation does not exist">>,
                  <<"tool failed">>}
ResumedHistories ==
    {<< >>, <<[role |-> "user", content |-> <<"q">>],
              [role |-> "assistant", content |-> <<"a">>]>>}

\* ------------------------------------------------------------------------
\* The connection: connectionState, wsRef, the sockets, the attempt counter
\* and the reconnect timer, handled as one record by connect, disconnect,
\* reconnect and send.
\* ------------------------------------------------------------------------

Conn == [state |-> connectionState, wsRef |-> wsRef, ws |-> ws,
         attempts |-> reconnectAttemptsRef, timeoutRef |-> reconnectTimeoutRef]

IsOpen(c, w) == w # 0 /\ c.ws[w].rs = "OPEN"

\* Slots holding no socket that can still deliver an event or fire a timer.
FreeSlots(c) ==
    {w \in Slots : c.ws[w].rs \in {"NONE", "CLOSED"} /\ c.ws[w].timer = NoTimer}

MinOf(S) == CHOOSE x \in S : \A y \in S : x <= y

\* send: only if the current socket is open.
Send(c, frame) ==
    IF IsOpen(c, c.wsRef)
    THEN [c EXCEPT !.ws[c.wsRef].sent = @ \cup {frame}]
    ELSE c

\* connect would create a WebSocket and the model has a slot for it.
CanConnect(c) == IsOpen(c, c.wsRef) \/ FreeSlots(c) # {}

\* Mutant of Connect: every connection attempt restores the attempt budget.
ConnectResetting(c, tok) ==
    IF IsOpen(c, c.wsRef) THEN c
    ELSE LET w == MinOf(FreeSlots(c))
         IN  [c EXCEPT !.state = "connecting",
                       !.ws[w] = [rs |-> "CONNECTING", tok |-> tok,
                                  sent |-> {}, timer |-> NoTimer],
                       !.wsRef = w,
                       !.attempts = 0]

\* connect(): returns at once if the current socket is open, else creates a
\* new WebSocket carrying the jwt of the closure and makes it current.
Connect(c, tok) ==
    IF IsOpen(c, c.wsRef) THEN c
    ELSE LET w == MinOf(FreeSlots(c))
         IN  [c EXCEPT !.state = "connecting",
                       !.ws[w] = [rs |-> "CONNECTING", tok |-> tok,
                                  sent |-> {}, timer |-> NoTimer],
                       !.wsRef = w]

\* disconnect(): clear the referenced timer, close the current socket, and
\* forget it.
Disconnect(c) ==
    LET c1 == IF c.timeoutRef # 0
              THEN [c EXCEPT !.ws[c.timeoutRef].timer = NoTimer,
                             !.timeoutRef = 0]
              ELSE c
        c2 == IF c1.wsRef # 0 /\ c1.ws[c1.wsRef].rs \in {"CONNECTING", "OPEN"}
              THEN [c1 EXCEPT !.ws[c1.wsRef].rs = "CLOSING"]
              ELSE c1
    IN  [c2 EXCEPT !.wsRef = 0]

\* reconnect()
Reconnect(c, tok) == Connect(Disconnect([c EXCEPT !.attempts = 0]), tok)

CanReconnect(c) == CanConnect(Disconnect(c))

\* A closed socket with no timer pending that nothing refers to is garbage;
\* a socket that left OPEN no longer receives answers to what was sent.
Collect(c) ==
    [w \in Slots |->
        LET x == c.ws[w]
        IN  IF x.rs = "CLOSED" /\ x.timer = NoTimer /\ c.wsRef # w
            THEN NoSocket
            ELSE IF x.rs = "CLOSED" THEN [x EXCEPT !.sent = {}, !.tok = 0]
            ELSE IF x.rs = "CLOSING" THEN [x EXCEPT !.sent = {}]
            ELSE x]

SetConn(c) ==
    /\ connectionState' = c.state
    /\ wsRef' = c.wsRef
    /\ ws' = Collect(c)
    /\ reconnectAttemptsRef' = c.attempts
    /\ reconnectTimeoutRef' = c.timeoutRef

\* ------------------------------------------------------------------------
\* The connect-on-JWT effect, unmount, and the reconnect function returned
\* by the hook.
\* ------------------------------------------------------------------------

\* Login (stored tokens found on mount, or LoginPanel succeeded): the jwt
\* prop turns from null to the access token. The effect's cleanup runs
\* (isMountedRef = false; disconnect()), then the effect (isMountedRef =
\* true; connect()).
Login ==
    /\ ~unmounted
    /\ jwt = 0
    /\ LET t == IF storedToken # 0 THEN storedToken ELSE 1
           c == Disconnect(Conn)
       IN  /\ CanConnect(c)
           /\ storedToken' = t
           /\ jwt' = t
           /\ SetConn(Connect(c, t))
    /\ isMountedRef' = TRUE
    /\ exhausted' = FALSE
    /\ refreshFailed' = FALSE
    /\ UNCHANGED <<asmVars, convVars, refresh, unmounted, gwVars, hubVars, cardVars>>
    /\ surfaced' = NoError
    /\ scheduled' = 0

\* Logout: clearStoredTokens(), the jwt prop turns null; cleanup, then the
\* effect runs without connecting.
Logout ==
    /\ ~unmounted
    /\ jwt # 0
    /\ storedToken' = 0
    /\ jwt' = 0
    /\ SetConn(Disconnect(Conn))
    /\ isMountedRef' = TRUE
    /\ UNCHANGED <<asmVars, convVars, refresh, refreshFailed, unmounted,
                   exhausted, gwVars, hubVars, cardVars>>
    /\ surfaced' = NoError
    /\ scheduled' = 0

\* Unmount: the cleanup runs and nothing is mounted afterwards.
Unmount ==
    /\ ~unmounted
    /\ unmounted' = TRUE
    /\ isMountedRef' = FALSE
    /\ SetConn(Disconnect(Conn))
    /\ UNCHANGED <<asmVars, convVars, authVars, exhausted, gwVars, hubVars, cardVars>>
    /\ surfaced' = NoError
    /\ scheduled' = 0

\* The caller invokes reconnect().
ExplicitReconnect ==
    /\ ~unmounted
    /\ CanReconnect(Conn)
    /\ SetConn(Reconnect(Conn, jwt))
    /\ exhausted' = FALSE
    /\ UNCHANGED <<asmVars, convVars, authVars, isMountedRef, unmounted,
                   gwVars, hubVars, cardVars>>
    /\ surfaced' = NoError
    /\ scheduled' = 0

\* ------------------------------------------------------------------------
\* WebSocket events.
\* ------------------------------------------------------------------------

\* The handshake onopen chooses.
Handshake(storedId, hasFailed) ==
    IF storedId # 0 /\ ~hasFailed
    THEN ResumeConversation(storedId)
    ELSE NewConversation

\* ws.onopen of socket w.
WsOpen(w) ==
    /\ ws[w].rs = "CONNECTING"
    /\ LET c == [Conn EXCEPT !.ws[w].rs = "OPEN", !.state = "connected",
                             !.attempts = 0]
           frame == Handshake(storedConversationId, hasResumeFailedRef)
       IN  /\ SetConn(Send(c, frame))
           /\ resumeFailed' = (resumeFailed /\
                                ~(frame = NewConversation /\ IsOpen(c, c.wsRef)))
    /\ IF storedConversationId # 0 /\ ~hasResumeFailedRef
       THEN /\ conversationIdRef' = storedConversationId
            /\ UNCHANGED hasResumeFailedRef
       ELSE /\ hasResumeFailedRef' = FALSE
            /\ UNCHANGED conversationIdRef
    /\ UNCHANGED <<asmVars, storedConversationId, live, nextConv, notFound,
                   authVars, isMountedRef, unmounted, exhausted,
                   gwVars, hubVars, cardVars>>
    /\ surfaced' = NoError
    /\ scheduled' = 0

Min(a, b) == IF a <= b THEN a ELSE b

\* The delay before the reconnect scheduled after the given number of
\* attempts.
Delay(attempts) == Min(BaseDelay * 2 ^ attempts, MaxDelay)

\* The socket w is closed (the connection failed, was lost, or close() was
\* called on it): ws.onerror, if it failed, then ws.onclose.
WsClosed(w, failed) ==
    /\ ws[w].rs \in {"CONNECTING", "OPEN", "CLOSING"}
    /\ LET c0 == [Conn EXCEPT !.ws[w].rs = "CLOSED"]
           c1 == IF failed THEN [c0 EXCEPT !.state = "error"] ELSE c0
           c2 == [c1 EXCEPT !.state = "disconnected"]
           retry == isMountedRef /\ c2.attempts < MaxReconnectAttempts
           c3 == IF ~isMountedRef THEN c2
                 ELSE IF retry
                 THEN [c2 EXCEPT !.state = "reconnecting",
                                 !.attempts = @ + 1,
                                 !.ws[w].timer = ws[w].tok,
                                 !.timeoutRef = w]
                 ELSE [c2 EXCEPT !.state = "error"]
       IN  /\ SetConn(c3)
           /\ exhausted' = (exhausted \/ (isMountedRef /\ ~retry))
           /\ surfaced' = IF isMountedRef /\ ~retry THEN ReconnectFailed
                          ELSE IF failed THEN ConnectionError
                          ELSE NoError
           /\ scheduled' = IF retry THEN Delay(c2.attempts) ELSE 0
    /\ isStreaming' = FALSE
    /\ UNCHANGED <<messages, confirmationRequest, streamingContentRef, turn,
                   convVars, authVars, isMountedRef, unmounted,
                   gwVars, hubVars, cardVars>>

\* The reconnect timer scheduled by the onclose of socket w fires.
TimerFire(w) ==
    /\ ws[w].timer # NoTimer
    /\ LET c == [Conn EXCEPT !.ws[w].timer = NoTimer,
                             !.timeoutRef = IF @ = w THEN 0 ELSE @]
       IN  IF isMountedRef
           THEN CanConnect(c) /\ SetConn(Connect(c, ws[w].timer))
           ELSE SetConn(c)
    /\ UNCHANGED <<asmVars, convVars, authVars, isMountedRef, unmounted,
                   exhausted, gwVars, hubVars, cardVars>>
    /\ surfaced' = NoError
    /\ scheduled' = 0

\* ------------------------------------------------------------------------
\* ws.onmessage: the Message Stream Assembler.
\* ------------------------------------------------------------------------
AssistantMessage(content) == [role |-> "assistant", content |-> content]

LastIsAssistant(prev) == prev # << >> /\ prev[Len(prev)].role = "assistant"

EndsWithCursor(content) == content # << >> /\ content[Len(content)] = "█"

ReplaceLast(prev, content) == [prev EXCEPT ![Len(prev)].content = content]

\* The setMessages updater of text_chunk.
ApplyTextChunk(prev, streaming) ==
    IF LastIsAssistant(prev) /\ ~EndsWithCursor(prev[Len(prev)].content)
    THEN ReplaceLast(prev, streaming)
    ELSE IF LastIsAssistant(prev)
    THEN ReplaceLast(prev, streaming)
    ELSE Append(prev, AssistantMessage(streaming))

\* Mutant of ApplyText: the final text is appended as a new message even
\* when a streaming assistant message is in progress.
ApplyTextAlwaysAppend(prev, content) ==
    Append(prev, AssistantMessage(content))

\* The setMessages updater of text.
ApplyText(prev, content) ==
    IF LastIsAssistant(prev)
    THEN ReplaceLast(prev, content)
    ELSE Append(prev, AssistantMessage(content))

\* content.trim()
RECURSIVE TrimStart(_)
TrimStart(t) == IF t # << >> /\ Head(t) = " " THEN TrimStart(Tail(t)) ELSE t

RECURSIVE TrimEnd(_)
TrimEnd(t) ==
    IF t # << >> /\ t[Len(t)] = " "
    THEN TrimEnd(SubSeq(t, 1, Len(t) - 1))
    ELSE t

Trim(t) == TrimEnd(TrimStart(t))

\* toLowerCase() on the fragments error texts are made of.
ToLowerCase(f) ==
    IF f = "Conversation not found" THEN "conversation not found" ELSE f

\* message.content.toLowerCase().includes(...)
IsConversationNotFound(content) ==
    \E i \in 1..Len(content) :
        ToLowerCase(content[i]) \in
            {"conversation not found", "conversation does not exist"}

\* case 'conversation_started': the backend answers new_conversation on
\* socket w with a fresh conversation.
OnConversationStarted(w) ==
    /\ ws[w].rs = "OPEN"
    /\ NewConversation \in ws[w].sent
    /\ nextConv <= MaxConv
    /\ conversationIdRef' = nextConv
    /\ storedConversationId' = nextConv
    /\ live' = live \cup {nextConv}
    /\ nextConv' = nextConv + 1
    /\ SetConn([Conn EXCEPT !.ws[w].sent = @ \ {NewConversation}])
    /\ UNCHANGED <<asmVars, hasResumeFailedRef, notFound, resumeFailed,
                   authVars, isMountedRef, unmounted, exhausted,
                   gwVars, hubVars, cardVars>>
    /\ surfaced' = NoError
    /\ scheduled' = 0

\* case 'conversation_resumed': the backend answers resume_conversation(id)
\* on socket w with the conversation's messages.
OnConversationResumed(w, id, history) ==
    /\ ws[w].rs = "OPEN"
    /\ ResumeConversation(id) \in ws[w].sent
    /\ id \in live
    /\ conversationIdRef' = id
    /\ storedConversationId' = id
    /\ messages' = history
    /\ turn' = NoTurn
    /\ SetConn([Conn EXCEPT !.ws[w].sent = @ \ {ResumeConversation(id)}])
    /\ UNCHANGED <<isStreaming, confirmationRequest, streamingContentRef,
                   hasResumeFailedRef, live, nextConv, notFound, resumeFailed,
                   authVars, isMountedRef, unmounted, exhausted,
                   gwVars, hubVars, cardVars>>
    /\ surfaced' = NoError
    /\ scheduled' = 0

\* case 'text_chunk'
OnTextChunk(w, fragment) ==
    /\ ws[w].rs = "OPEN"
    /\ Len(streamingContentRef) + Len(fragment) <= MaxLen
    /\ LET streaming == streamingContentRef \o fragment
           next == ApplyTextChunk(messages, streaming)
       IN  /\ Len(next) <= MaxMsgs
           /\ isStreaming' = TRUE
           /\ streamingContentRef' = streaming
           /\ messages' = next
    /\ turn' = IF turn.phase \in {"user", "chunks"}
               THEN [turn EXCEPT !.phase = "chunks"]
               ELSE NoTurn
    /\ UNCHANGED <<confirmationRequest, connVars, convVars, authVars,
                   isMountedRef, unmounted, exhausted, gwVars, hubVars, cardVars>>
    /\ surfaced' = NoError
    /\ scheduled' = 0

\* case 'text'
OnText(w, content) ==
    /\ ws[w].rs = "OPEN"
    /\ LET next == ApplyText(messages, content)
       IN  /\ Len(next) <= MaxMsgs
           /\ messages' = next
    /\ isStreaming' = FALSE
    /\ streamingContentRef' = << >>
    /\ turn' = IF turn.phase = "chunks"
               THEN [turn EXCEPT !.phase = "text", !.final = content]
               ELSE NoTurn
    /\ UNCHANGED <<confirmationRequest, connVars, convVars, authVars,
                   isMountedRef, unmounted, exhausted, gwVars, hubVars, cardVars>>
    /\ surfaced' = NoError
    /\ scheduled' = 0

\* case 'confirm_request'
OnConfirmRequest(w, actionId) ==
    /\ ws[w].rs = "OPEN"
    /\ confirmationRequest' = [actionId |-> actionId,
                               expiresAt |-> clock + Window]
    /\ cleared' = "none"
    /\ cancelsSent' = 0
    /\ UNCHANGED <<messages, isStreaming, streamingContentRef, turn, connVars,
                   convVars, authVars, isMountedRef, unmounted, exhausted,
                   gwVars, hubVars, clock, timeLeft>>
    /\ surfaced' = NoError
    /\ scheduled' = 0

\* Mutant of OnComplete: the confirmation request stays on display.
OnCompleteKeepsRequest(w) ==
    /\ ws[w].rs = "OPEN"
    /\ isStreaming' = FALSE
    /\ streamingContentRef' = << >>
    /\ UNCHANGED <<messages, confirmationRequest, turn, connVars, convVars,
                   authVars, isMountedRef, unmounted, exhausted,
                   gwVars, hubVars, cardVars>>
    /\ surfaced' = NoError
    /\ scheduled' = 0

\* case 'complete'
OnComplete(w) ==
    /\ ws[w].rs = "OPEN"
    /\ isStreaming' = FALSE
    /\ streamingContentRef' = << >>
    /\ confirmationRequest' = NoRequest
    /\ timeLeft' = 0
    /\ cleared' = IF confirmationRequest # NoRequest THEN "complete" ELSE cleared
    /\ UNCHANGED <<messages, turn, connVars, convVars, authVars,
                   isMountedRef, unmounted, exhausted, gwVars, hubVars,
                   clock, cancelsSent>>
    /\ surfaced' = NoError
    /\ scheduled' = 0

\* case 'error', conversation not found: the backend answers
\* resume_conversation(id) on socket w for a conversation it cannot find.
OnErrorNotFound(w, id, content) ==
    /\ ws[w].rs = "OPEN"
    /\ ResumeConversation(id) \in ws[w].sent
    /\ id \notin live
    /\ IsConversationNotFound(content)
    /\ isStreaming' = FALSE
    /\ streamingContentRef' = << >>
    /\ storedConversationId' = 0
    /\ conversationIdRef' = 0
    /\ hasResumeFailedRef' = TRUE
    /\ notFound' = notFound \cup {id}
    /\ resumeFailed' = TRUE
    /\ LET c == [Conn EXCEPT !.ws[w].sent = @ \ {ResumeConversation(id)}]
       IN  /\ CanReconnect(c)
           /\ SetConn(Reconnect(c, ws[w].tok))
    /\ UNCHANGED <<messages, confirmationRequest, turn, live, nextConv,
                   authVars, isMountedRef, unmounted, exhausted,
                   gwVars, hubVars, cardVars>>
    /\ surfaced' = NoError
    /\ scheduled' = 0

\* case 'error', any other error: shown as a synthetic assistant message.
OnErrorOther(w, content) ==
    /\ ws[w].rs = "OPEN"
    /\ ~IsConversationNotFound(content)
    /\ Len(messages) < MaxMsgs
    /\ isStreaming' = FALSE
    /\ streamingContentRef' = << >>
    /\ messages' = Append(messages, AssistantMessage(<<"Error: ">> \o content))
    /\ surfaced' = content[1]
    /\ scheduled' = 0
    /\ turn' = NoTurn
    /\ UNCHANGED <<confirmationRequest, connVars, convVars, authVars,
                   isMountedRef, unmounted, exhausted, gwVars, hubVars, cardVars>>

\* sendMessage(content)
SendMessage(input) ==
    /\ ~unmounted
    /\ Trim(input) # << >>
    /\ Len(messages) < MaxMsgs
    /\ messages' = Append(messages, [role |-> "user", content |-> Trim(input)])
    /\ SetConn(Send(Conn, UserMessage))
    /\ turn' = [phase |-> "user", base |-> Len(messages) + 1, final |-> << >>]
    /\ UNCHANGED <<isStreaming, confirmationRequest, streamingContentRef,
                   convVars, authVars, isMountedRef, unmounted, exhausted,
                   gwVars, hubVars, cardVars>>
    /\ surfaced' = NoError
    /\ scheduled' = 0

\* confirmAction(actionId): the Confirm button of the card.
ConfirmAction ==
    /\ ~unmounted
    /\ confirmationRequest # NoRequest
    /\ SetConn(Send(Conn, ConfirmFrame(confirmationRequest.actionId)))
    /\ confirmationRequest' = NoRequest
    /\ timeLeft' = 0
    /\ cleared' = "confirm"
    /\ UNCHANGED <<messages, isStreaming, streamingContentRef, turn,
                   convVars, authVars, isMountedRef, unmounted, exhausted,
                   gwVars, hubVars, clock, cancelsSent>>
    /\ surfaced' = NoError
    /\ scheduled' = 0

\* cancelAction(actionId), called by the Cancel button ("cancel") or by the
\* countdown ("expired").
CancelAction(how) ==
    /\ SetConn(Send(Conn, CancelFrame(confirmationRequest.actionId)))
    /\ confirmationRequest' = NoRequest
    /\ cleared' = how
    /\ cancelsSent' = IF IsOpen(Conn, wsRef) THEN cancelsSent + 1
                      ELSE cancelsSent
    /\ UNCHANGED <<messages, isStreaming, streamingContentRef, turn,
                   convVars, authVars, isMountedRef, unmounted, exhausted,
                   gwVars, hubVars, clock>>
    /\ surfaced' = NoError
    /\ scheduled' = 0

\* ------------------------------------------------------------------------
\* ConfirmationCard: the countdown of the request on display.
\* ------------------------------------------------------------------------
Max(a, b) == IF a >= b THEN a ELSE b

\* Math.max(0, request.expiresAt.getTime() - Date.now())
Remaining == Max(0, confirmationRequest.expiresAt - clock)

\* What a render of the card computes: the progress in percent, as the
\* fraction <<numerator, denominator>>.
TotalDuration == confirmationRequest.expiresAt - clock + timeLeft

Progress ==
    IF TotalDuration > 0 THEN <<timeLeft * 100, TotalDuration>> ELSE <<0, 1>>

\* The Cancel button of the card.
CancelButton ==
    /\ ~unmounted
    /\ confirmationRequest # NoRequest
    /\ timeLeft' = 0
    /\ CancelAction("cancel")

\* Mutant of UpdateTimeLeft: the countdown stops at zero and cancels nothing.
UpdateTimeLeftNoCancel ==
    /\ ~unmounted
    /\ confirmationRequest # NoRequest
    /\ timeLeft' = Remaining
    /\ UNCHANGED <<connVars, asmVars, convVars, authVars, isMountedRef,
                   unmounted, exhausted, gwVars, hubVars, clock, cleared,
                   cancelsSent>>
    /\ surfaced' = NoError
    /\ scheduled' = 0

\* updateTimeLeft, run when the card's effect starts and then by its
\* interval: at zero it calls onCancel, and the card is unmounted.
UpdateTimeLeft ==
    /\ ~unmounted
    /\ confirmationRequest # NoRequest
    /\ IF Remaining <= 0
       THEN /\ timeLeft' = 0
            /\ CancelAction("expired")
       ELSE /\ timeLeft' = Remaining
            /\ UNCHANGED <<connVars, asmVars, convVars, authVars,
                           isMountedRef, unmounted, exhausted, gwVars,
                           hubVars, clock, cleared, cancelsSent>>
            /\ surfaced' = NoError
            /\ scheduled' = 0

\* Time passes on the client.
ClockAdvance ==
    /\ clock < MaxClock
    /\ clock' = clock + 1
    /\ UNCHANGED <<connVars, asmVars, convVars, authVars, isMountedRef,
                   unmounted, exhausted, gwVars, hubVars, timeLeft, cleared,
                   cancelsSent>>
    /\ surfaced' = NoError
    /\ scheduled' = 0

\* The backend loses a conversation.
BackendForget(id) ==
    /\ id \in live
    /\ live' = live \ {id}
    /\ UNCHANGED <<connVars, asmVars, conversationIdRef, hasResumeFailedRef,
                   storedConversationId, nextConv, notFound, resumeFailed,
                   authVars,
                   isMountedRef, unmounted, exhausted, gwVars, hubVars, cardVars>>
    /\ surfaced' = NoError
    /\ scheduled' = 0

\* ------------------------------------------------------------------------
\* Token refresh effect.
\* ------------------------------------------------------------------------

\* The interval callback ("periodic") or checkImmediately ("eager") finds
\* stored tokens that expire soon and awaits refreshAccessToken.
TokenCheck(kind) ==
    /\ ~unmounted
    /\ refresh = NoRefresh
    /\ storedToken # 0
    /\ storedToken < MaxTok
    /\ refresh' = [kind |-> kind, jwt |-> jwt]
    /\ UNCHANGED <<connVars, asmVars, convVars, storedToken, jwt,
                   refreshFailed, isMountedRef, unmounted, exhausted,
                   gwVars, hubVars, cardVars>>
    /\ surfaced' = NoError
    /\ scheduled' = 0

\* refreshAccessToken resolves: the new tokens are stored, and the interval
\* callback reconnects if there is a current socket.
RefreshSucceeds ==
    /\ refresh # NoRefresh
    /\ storedToken' = storedToken + 1
    /\ refreshFailed' = FALSE
    /\ refresh' = NoRefresh
    /\ IF refresh.kind = "periodic" /\ wsRef # 0
       THEN CanReconnect(Conn) /\ SetConn(Reconnect(Conn, refresh.jwt))
       ELSE UNCHANGED connVars
    /\ UNCHANGED <<asmVars, convVars, jwt, isMountedRef, unmounted, exhausted,
                   gwVars, hubVars, cardVars>>
    /\ surfaced' = NoError
    /\ scheduled' = 0

\* Mutant of RefreshFails: the error is surfaced but the stored credentials
\* are kept.
RefreshFailsKeepsTokens ==
    /\ refresh # NoRefresh
    /\ refreshFailed' = TRUE
    /\ surfaced' = SessionExpired
    /\ scheduled' = 0
    /\ refresh' = NoRefresh
    /\ UNCHANGED <<connVars, asmVars, convVars, storedToken, jwt,
                   isMountedRef, unmounted, exhausted, gwVars, hubVars, cardVars>>

\* refreshAccessToken rejects: onError, clearStoredTokens().
RefreshFails ==
    /\ refresh # NoRefresh
    /\ storedToken' = 0
    /\ refreshFailed' = TRUE
    /\ surfaced' = SessionExpired
    /\ scheduled' = 0
    /\ refresh' = NoRefresh
    /\ UNCHANGED <<connVars, asmVars, convVars, jwt, isMountedRef, unmounted,
                   exhausted, gwVars, hubVars, cardVars>>

Init ==
    /\ now = 0
    /\ store = << >>
    /\ nextActionId = 1
    /\ lastResult = NoResult
    /\ clients = {}
    /\ mailbox = [h \in Handlers |-> << >>]
    /\ closed = [h \in Handlers |-> 0]
    /\ hpc = [h \in Handlers |-> "idle"]
    /\ broadcast = << >>
    /\ published = 0
    /\ taken = [h \in Handlers |-> 0]
    /\ messages = << >>
    /\ isStreaming = FALSE
    /\ connectionState = "disconnected"
    /\ confirmationRequest = NoRequest
    /\ wsRef = 0
    /\ streamingContentRef = << >>
    /\ conversationIdRef = 0
    /\ isMountedRef = TRUE
    /\ reconnectAttemptsRef = 0
    /\ reconnectTimeoutRef = 0
    /\ hasResumeFailedRef = FALSE
    /\ storedConversationId = 0
    /\ storedToken = 0
    /\ jwt = 0
    /\ unmounted = FALSE
    /\ refresh = NoRefresh
    /\ ws = [w \in Slots |-> NoSocket]
    /\ live = {}
    /\ nextConv = 1
    /\ notFound = {}
    /\ resumeFailed = FALSE
    /\ refreshFailed = FALSE
    /\ surfaced = NoError
    /\ scheduled = 0
    /\ exhausted = FALSE
    /\ turn = NoTurn
    /\ clock = 0
    /\ timeLeft = 0
    /\ cleared = "none"
    /\ cancelsSent = 0

HubNext ==
    \/ \E h \in Handlers : HandleSSEStart(h)
    \/ \E h \in Handlers : RunRegister(h)
    \/ \E h \in Handlers : HandleSSEReturn(h)
    \/ \E h \in Handlers : RunUnregister(h)
    \/ \E h \in Handlers : RunUnregisterAgain(h)
    \/ \E h \in Handlers : HandleSSEEvent(h)
    \/ RunBroadcast
    \/ published < MaxPublish /\ NotifyDashboardUpdate

GatewayNext ==
    \/ \E u \in Users, t \in Tools, i \in Inputs : Register(u, t, i)
    \/ \E u \in Users, id \in 1..MaxActions : Confirm(u, id)
    \/ \E u \in Users, id \in 1..MaxActions : Cancel(u, id)
    \/ ExpirySweep
    \/ Tick

vars == <<gwVars, hubVars, sessVars>>

\* Each subsystem is checked on its own: the others stay in their initial
\* state.
SpecGateway == Init /\ [][GatewayNext]_vars

\* The expiry sweep is a background process of the gateway: it runs again
\* and again, whatever the clients do.
SpecGatewayLive == SpecGateway /\ WF_vars(ExpirySweep)

SpecHub == Init /\ [][HubNext]_vars

\* A burst of publishes that run does not get to dequeue: subscribers
\* register, and NotifyDashboardUpdate is called until the broadcast buffer
\* is full and once more.
HubBurstNext ==
    \/ \E h \in Handlers : HandleSSEStart(h)
    \/ \E h \in Handlers : RunRegister(h)
    \/ published < MaxBurst /\ NotifyDashboardUpdate

SpecHubBurst == Init /\ [][HubBurstNext]_vars

\* The hub with a few events, its loop scheduled fairly: run is a goroutine
\* of its own, and its select takes every case that stays ready.
HubLiveNext ==
    \/ \E h \in Handlers : HandleSSEStart(h)
    \/ \E h \in Handlers : RunRegister(h)
    \/ \E h \in Handlers : HandleSSEReturn(h)
    \/ \E h \in Handlers : RunUnregister(h)
    \/ \E h \in Handlers : HandleSSEEvent(h)
    \/ RunBroadcast
    \/ published < MaxQueued /\ NotifyDashboardUpdate

SpecHubLive ==
    /\ Init /\ [][HubLiveNext]_vars
    /\ \A h \in Handlers : WF_vars(RunRegister(h))
    /\ \A h \in Handlers : WF_vars(RunUnregister(h))
    /\ WF_vars(RunBroadcast)

\* The Message Stream Assembler on one connection, from login until the
\* connection is lost.
AsmNext ==
    \/ Login
    \/ \E w \in Slots : WsOpen(w)
    \/ \E w \in Slots, failed \in BOOLEAN : WsClosed(w, failed)
    \/ \E w \in Slots : TimerFire(w)
    \/ \E w \in Slots : OnConversationStarted(w)
    \/ \E w \in Slots, id \in 1..MaxConv, h \in ResumedHistories :
          OnConversationResumed(w, id, h)
    \/ \E w \in Slots, f \in Fragments : OnTextChunk(w, f)
    \/ \E w \in Slots, t \in FinalTexts : OnText(w, t)
    \/ \E w \in Slots : OnConfirmRequest(w, 1)
    \/ \E w \in Slots : OnComplete(w)
    \/ \E w \in Slots, e \in ErrorContents : OnErrorOther(w, e)
    \/ \E i \in UserInputs : SendMessage(i)

SpecAsm == Init /\ [][AsmNext]_vars

\* The credential refresh effect, with the logins, logouts and connections
\* it interleaves with.
AuthNext ==
    \/ Login
    \/ Logout
    \/ Unmount
    \/ \E w \in Slots : WsOpen(w)
    \/ \E w \in Slots, failed \in BOOLEAN : WsClosed(w, failed)
    \/ \E kind \in {"periodic", "eager"} : TokenCheck(kind)
    \/ RefreshSucceeds
    \/ RefreshFails

SpecAuth == Init /\ [][AuthNext]_vars

\* The Session Manager: connection, conversation handshake and credentials.
SessionNext ==
    \/ Login
    \/ Logout
    \/ Unmount
    \/ ExplicitReconnect
    \/ \E w \in Slots : WsOpen(w)
    \/ \E w \in Slots, failed \in BOOLEAN : WsClosed(w, failed)
    \/ \E w \in Slots : TimerFire(w)
    \/ \E w \in Slots : OnConversationStarted(w)
    \/ \E w \in Slots, id \in 1..MaxConv : OnConversationResumed(w, id, << >>)
    \/ \E w \in Slots, id \in 1..MaxConv, e \in ErrorContents :
          OnErrorNotFound(w, id, e)
    \/ \E id \in 1..MaxConv : BackendForget(id)
    \/ \E kind \in {"periodic", "eager"} : TokenCheck(kind)
    \/ RefreshSucceeds
    \/ RefreshFails

Spec == Init /\ [][SessionNext]_vars

\* The session manager left to itself after one login: the transport and
\* the backend behave in every possible way, and the caller neither asks
\* for a reconnect nor logs out, and no credential refresh intervenes.
RetryNext ==
    \/ Login
    \/ \E w \in Slots : WsOpen(w)
    \/ \E w \in Slots, failed \in BOOLEAN : WsClosed(w, failed)
    \/ \E w \in Slots : TimerFire(w)
    \/ \E w \in Slots : OnConversationStarted(w)
    \/ \E w \in Slots, id \in 1..MaxConv : OnConversationResumed(w, id, << >>)
    \/ \E w \in Slots, id \in 1..MaxConv, e \in ErrorContents :
          OnErrorNotFound(w, id, e)
    \/ \E id \in 1..MaxConv : BackendForget(id)

SpecRetry == Init /\ [][RetryNext]_vars

\* The confirmation card on a connection that opens and closes.
CardNext ==
    \/ Login
    \/ \E w \in Slots : WsOpen(w)
    \/ \E w \in Slots, failed \in BOOLEAN : WsClosed(w, failed)
    \/ \E w \in Slots : TimerFire(w)
    \/ \E w \in Slots, id \in 1..MaxActions : OnConfirmRequest(w, id)
    \/ \E w \in Slots : OnComplete(w)
    \/ ConfirmAction
    \/ CancelButton
    \/ UpdateTimeLeft
    \/ ClockAdvance

SpecCard == Init /\ [][CardNext]_vars

\* The card's effect runs updateTimeLeft at once and then every 100 ms for as
\* long as the card is mounted.
SpecCardLive == SpecCard /\ WF_vars(UpdateTimeLeft)

\* A reconnect scheduled with setTimeout does fire: the timer callback runs
\* once its delay has passed, unless the timer is cleared first.
SpecRetryLive == SpecRetry /\ WF_vars(\E w \in Slots : TimerFire(w))


(***************************************************************************)
(*                    Claims on the Confirmation Gateway                   *)
(***************************************************************************)

Resolved == {"confirmed", "cancelled", "expired"}

\* Number of times the tool was executed for key: the caller invokes the
\* tool once per successful confirm.
Executions(key) ==
    Cardinality({id \in DOMAIN store :
                    store[id].key = key /\ store[id].status = "confirmed"})

\* C2: all requests with the same idempotency key collapse into a single
\* execution: the tool is executed at most once per idempotency key.
C2_SingleExecutionPerKey ==
    \A id \in DOMAIN store : Executions(store[id].key) <= 1

\* C3: at most one terminal resolution takes effect per action ID: a resolved
\* action never changes status again, and confirm succeeds only on an action
\* that is pending, which it turns into confirmed.
C3_Step ==
    /\ \A id \in DOMAIN store :
          store[id].status \in Resolved => store'[id].status = store[id].status
    /\ (lastResult' # lastResult /\ lastResult'.op = "confirm"
            /\ lastResult'.result = "OK")
          => /\ lastResult'.id \in DOMAIN store
             /\ store[lastResult'.id].status = "pending"
             /\ store'[lastResult'.id].status = "confirmed"

C3_OneTerminalResolution == [][C3_Step]_vars

\* C3 witness: a confirm arrived for an action already cancelled or expired
\* and was rejected.
C3_Witness ==
    /\ lastResult.op = "confirm"
    /\ lastResult.pre \in {"cancelled", "expired"}
    /\ lastResult.result = "NotFound"

C4_Step ==
    (lastResult' # lastResult /\ lastResult'.op = "register")
      => LET id == lastResult'.id
             k == store'[id].key
         IN  /\ k[1] = lastResult'.user
             /\ k[4] = TimeBucket(now)
             /\ store'[id].status = "pending"
             /\ \/ /\ id \in PendingSet
                   /\ store' = store
                \/ /\ id \notin DOMAIN store
                   /\ \A o \in PendingSet : store[o].key # k

C4_PendingKeysUnique ==
    \A a, b \in PendingSet : store[a].key = store[b].key => a = b

C6_Step ==
    (lastResult' # lastResult /\ lastResult'.op = "cancel"
        /\ lastResult'.pre \in {"pending", "cancelled", "confirmed"})
      => /\ lastResult'.result = "OK"
         /\ lastResult'.pre \in {"cancelled", "confirmed"}
              => <<now, store, nextActionId>>' = <<now, store, nextActionId>>

C6_CancelIdempotent == [][C6_Step]_vars

\* C6 witness: a second cancel of a cancelled action returned success.
C6_Witness ==
    /\ lastResult.op = "cancel"
    /\ lastResult.pre = "cancelled"
    /\ lastResult.result = "OK"

\* An action is still pending although its expiry has passed.
Overdue == \E id \in PendingSet : IsExpired(store[id], now)

\* C15: whenever an action is still pending once its expiry has passed,
\* eventually no such action is left in the pending set (expiry being
\* permanent, each of them has been removed), whether or not any client
\* sends a cancel or any other message.
C15_HardTTL == Overdue ~> ~Overdue

\* C15 witness: an action was registered, nobody confirmed or cancelled
\* it, and the sweep has denied it.
C15_Witness ==
    \E id \in DOMAIN store :
        /\ store[id].status = "expired"
        /\ lastResult.op = "register"
        /\ IsExpired(store[id], now)

(***************************************************************************)
(*                  Claims on the Notification Broadcast Hub               *)
(***************************************************************************)

\* C8: publish never waits (NotifyDashboardUpdate can always run to its
\* return), and when run dispatches an event every registered client with
\* free space in its mailbox receives it, whether or not another client's
\* mailbox is full.
C8_PublishNeverWaits == published < MaxPublish => ENABLED NotifyDashboardUpdate

C8_Step ==
    (broadcast # << >> /\ broadcast' = Tail(broadcast))
      => \A c \in clients :
            Len(mailbox[c]) < MailboxCap
              => mailbox'[c] = Append(mailbox[c], Head(broadcast))

C8_SlowSubscriberIsolated == []C8_PublishNeverWaits /\ [][C8_Step]_vars

\* C8 witness: one client's mailbox is full and was never drained (it still
\* starts with the first event), and another client holds an event published
\* after the ones the full mailbox could take.
C8_Witness ==
    \E slow, other \in clients :
        /\ Len(mailbox[slow]) = MailboxCap
        /\ mailbox[slow][1] = 1
        /\ mailbox[other] # << >>
        /\ mailbox[other][Len(mailbox[other])] > mailbox[slow][MailboxCap]

\* C14: an event is lost for a subscriber only because that subscriber's
\* own mailbox is full: publish hands every event to the hub, and when the
\* hub dispatches an event every subscriber receives it unless its own
\* mailbox is full.
C14_Step ==
    /\ published' # published => broadcast' = Append(broadcast, published')
    /\ (broadcast # << >> /\ broadcast' = Tail(broadcast))
          => \A c \in clients :
                mailbox'[c] = IF Len(mailbox[c]) < MailboxCap
                              THEN Append(mailbox[c], Head(broadcast))
                              ELSE mailbox[c]

C14_LossIsPerSubscriber == [][C14_Step]_vars

\* C16: a handle that was unsubscribed is no longer in the subscriber set
\* and its mailbox has been closed exactly once; no mailbox is closed twice,
\* a closed mailbox belongs to no subscriber, and no event is put into a
\* closed mailbox.
C16_ClosedOnce ==
    \A h \in Handlers :
        /\ closed[h] <= 1
        /\ closed[h] = 1 => h \notin clients
        /\ hpc[h] = "done" => (h \notin clients /\ closed[h] = 1)

C16_Step ==
    \A h \in Handlers :
        /\ closed[h] >= 1 => Len(mailbox'[h]) <= Len(mailbox[h])
        /\ (h \in clients /\ h \notin clients') => closed'[h] = closed[h] + 1

C16_UnsubscribeClosesOnce == []C16_ClosedOnce /\ [][C16_Step]_vars

\* C16 witness: one handle was unsubscribed while events were being
\* published and another subscriber kept receiving them.
C16_Witness ==
    \E h, other \in Handlers :
        /\ hpc[h] = "done"
        /\ closed[h] = 1
        /\ other \in clients
        /\ mailbox[other] # << >>
        /\ broadcast # << >>

(***************************************************************************)
(*                  Claims on the Message Stream Assembler                 *)
(***************************************************************************)

\* C1: after one or more text_chunk events followed by a text event within
\* a turn begun by a user message, the transcript ends with that user
\* message followed by exactly one assistant message, whose content is the
\* text event's content and not the concatenation of the chunks.
C1_FinalTextReplacesStream ==
    turn.phase = "text" =>
        /\ Len(messages) = turn.base + 1
        /\ messages[turn.base].role = "user"
        /\ messages[turn.base + 1] = AssistantMessage(turn.final)

\* A turn whose chunks concatenate to "a" was finished by the text "b":
\* two messages, the assistant's reading "b".
C1_Witness ==
    /\ turn = [phase |-> "text", base |-> 1, final |-> <<"b">>]
    /\ messages = <<[role |-> "user", content |-> <<"q">>],
                    AssistantMessage(<<"b">>)>>
    /\ confirmationRequest = NoRequest
    /\ ~isStreaming

(***************************************************************************)
(*                      Claims on the Session Manager                      *)
(***************************************************************************)

\* A WebSocket is created in slot w by this step.
Opens(w) == ws'[w].rs = "CONNECTING" /\ ws[w].rs # "CONNECTING"

\* C7: when the reconnect budget runs out the state becomes error, and
\* until reconnect is explicitly invoked (or a new connect is requested by a
\* login) no step creates a WebSocket.
C7_Step ==
    /\ (~exhausted /\ exhausted') => connectionState' = "error"
    /\ (exhausted /\ exhausted') => \A w \in Slots : ~Opens(w)

C7_NoAutomaticConnectAfterError == [][C7_Step]_vars

\* C9: at most one WebSocket created by the manager is connecting or open,
\* and the open and close events of a WebSocket that is not the current one
\* change nothing of the session.
C9_AtMostOneActive ==
    Cardinality({w \in Slots : ws[w].rs \in {"CONNECTING", "OPEN"}}) <= 1

C9_Step ==
    (\E w \in Slots :
        /\ w # wsRef
        /\ WsOpen(w) \/ \E failed \in BOOLEAN : WsClosed(w, failed))
      => UNCHANGED <<connectionState, reconnectAttemptsRef,
                     reconnectTimeoutRef, conversationIdRef,
                     hasResumeFailedRef, isStreaming>>

C9_SingleLogicalConnection == []C9_AtMostOneActive /\ [][C9_Step]_vars

\* The frames this step sends on socket w.
NewFrames(w) == IF ws'[w].rs = "OPEN" THEN ws'[w].sent \ ws[w].sent ELSE {}

\* The handshake due when a connection opens: resume the stored conversation
\* if there is one and no resume has failed since the last fresh start.
DueHandshake ==
    IF storedConversationId # 0 /\ ~resumeFailed
    THEN ResumeConversation(storedConversationId)
    ELSE NewConversation

\* C10: every connection that opens is sent the due handshake; a "not
\* found" answer clears the stored ID and marks resumption unavailable; the
\* next handshake sent after it is new_conversation, and resume_conversation
\* is never sent again for an ID reported as not found.
C10_Step ==
    /\ \A w \in Slots :
          (ws[w].rs = "CONNECTING" /\ ws'[w].rs = "OPEN")
            => ws'[w].sent = {DueHandshake}
    /\ notFound' # notFound
          => /\ storedConversationId' = 0
             /\ conversationIdRef' = 0
             /\ hasResumeFailedRef'
    /\ \A w \in Slots :
          /\ resumeFailed => NewFrames(w) \subseteq {NewConversation}
          /\ \A id \in notFound : ResumeConversation(id) \notin NewFrames(w)

C10_ConversationContinuity == [][C10_Step]_vars

\* A credential refresh succeeds in this step.
RefreshSucceeded ==
    refresh # NoRefresh /\ refresh' = NoRefresh /\ storedToken' # 0

\* C11: when a credential check (eager or periodic) found the credential
\* expiring and the refresh succeeds, the stored credentials are updated and
\* a connection is opened that carries the refreshed access credential.
C11_Step ==
    RefreshSucceeded =>
        /\ storedToken' # storedToken
        /\ \E w \in Slots : Opens(w) /\ ws'[w].tok = storedToken'

C11_ReconnectWithNewCredential == [][C11_Step]_vars

\* A credential check issues a refresh request in this step.
RefreshIssued == refresh = NoRefresh /\ refresh' # NoRefresh

\* A refresh attempt fails in this step.
RefreshFailedNow ==
    refresh # NoRefresh /\ refresh' = NoRefresh /\ refreshFailed'

\* C12: a failed refresh surfaces an error to the caller and clears the
\* stored credentials, and no later credential check issues a refresh
\* request until new credentials have been stored.
C12_Step ==
    /\ RefreshFailedNow => surfaced' = SessionExpired /\ storedToken' = 0
    /\ RefreshIssued => ~refreshFailed

C12_RefreshFailureIsFatal == [][C12_Step]_vars

\* A refresh has failed, and the credentials are gone while the session
\* that used them is still logged in.
C12_Witness ==
    /\ refreshFailed
    /\ surfaced = SessionExpired
    /\ storedToken = 0
    /\ jwt # 0
    /\ refresh = NoRefresh

\* A text_chunk, text, complete or error event is handled in this step.
StreamEvent ==
    \E w \in Slots :
        \/ \E f \in Fragments : OnTextChunk(w, f)
        \/ \E t \in FinalTexts : OnText(w, t)
        \/ OnComplete(w)
        \/ \E e \in ErrorContents : OnErrorOther(w, e)

\* C13: once a text event has finalized the assistant message of a turn, no
\* later text_chunk, text, complete or error event changes that message.
C13_Step ==
    (turn.phase = "text" /\ StreamEvent) =>
        /\ Len(messages') >= turn.base + 1
        /\ messages'[turn.base + 1] = messages[turn.base + 1]

C13_FinalizedImmutable == [][C13_Step]_vars

\* The transitions of connectionState the state machine allows.
AllowedTransitions ==
    {<<"disconnected", "connecting">>,
     <<"connecting", "connected">>,
     <<"connecting", "reconnecting">>, <<"connected", "reconnecting">>,
     <<"connecting", "error">>, <<"connected", "error">>,
     <<"reconnecting", "connecting">>}

\* The caller tears the connection down or resets it in this step: logout,
\* unmount, login (the effect's cleanup, then connect) or reconnect().
ExplicitStep == Login \/ Logout \/ Unmount \/ ExplicitReconnect

\* The close event of a socket the manager closed itself arrives.
TornDownClosed ==
    \E w \in Slots : ws[w].rs = "CLOSING" /\ ws'[w].rs # "CLOSING"

\* C17: every change of connectionState is one of the allowed transitions,
\* or leads to disconnected on a teardown (in the caller's step or when the
\* closed socket's close event arrives), or to connecting through a reset
\* by the caller; error is left by no other step.
C17_Step ==
    connectionState' # connectionState =>
        \/ <<connectionState, connectionState'>> \in AllowedTransitions
        \/ connectionState' = "disconnected" /\ (ExplicitStep \/ TornDownClosed)
        \/ connectionState' = "connecting" /\ ExplicitStep

C17_StateMachine == [][C17_Step]_vars

\* The delays of the backoff schedule, in milliseconds.
BackoffSchedule == <<1000, 2000, 4000, 8000, 10000>>

\* A close event is handled in this step.
CloseEvent == \E w \in Slots, failed \in BOOLEAN : WsClosed(w, failed)

\* The schedule itself: a reconnect scheduled when the counter is k waits
\* BackoffSchedule[k + 1] and counts as one more attempt, and a close event
\* that finds the counter at 5 schedules nothing and yields error.
C18_Schedule ==
    /\ scheduled' # 0 =>
          /\ reconnectAttemptsRef < MaxReconnectAttempts
          /\ scheduled' = BackoffSchedule[reconnectAttemptsRef + 1]
          /\ reconnectAttemptsRef' = reconnectAttemptsRef + 1
    /\ (CloseEvent /\ isMountedRef
          /\ reconnectAttemptsRef = MaxReconnectAttempts) =>
          /\ scheduled' = 0
          /\ connectionState' = "error"

\* C18: the k-th consecutive automatic reconnect since the last successful
\* connection waits 1000, 2000, 4000, 8000, 10000 ms for k = 0..4 and a
\* sixth consecutive failure yields error: the delays follow the schedule by
\* the attempt counter, and the counter goes back only when a connection
\* opens or the caller resets it.
C18_Step ==
    /\ C18_Schedule
    /\ reconnectAttemptsRef' < reconnectAttemptsRef =>
          (\E w \in Slots : WsOpen(w)) \/ ExplicitStep

C18_BackoffSchedule == [][C18_Step]_vars

\* C19: whenever the current transport is open, its open event processed,
\* the reconnect attempt counter is 0, so that a later failure of that
\* connection starts again with the base delay and the full attempt budget.
C19_CounterResetWhileOpen ==
    IsOpen(Conn, wsRef) => reconnectAttemptsRef = 0

\* A connection opens in this step.
OpenEvent == \E w \in Slots : WsOpen(w)

\* No connection attempt is made in this step.
NoAttempt == \A w \in Slots : ~Opens(w)

TornDown == unmounted \/ jwt = 0

\* No socket can still deliver an event and no reconnect timer is pending.
Quiescent ==
    \A w \in Slots : ws[w].rs \in {"NONE", "CLOSED"} /\ ws[w].timer = NoTimer

\* The teardown cancels every pending reconnect timer.
C21_TimersCancelled ==
    (Logout \/ Unmount) => \A w \in Slots : ws'[w].timer = NoTimer

\* While torn down, only a connect requested by the caller opens a transport.
C21_NoNewTransport ==
    (TornDown /\ \E w \in Slots : Opens(w)) => Login \/ ExplicitReconnect

\* Once the torn down session has come to rest, it is disconnected.
C21_EndsDisconnected ==
    (TornDown' /\ Quiescent') => connectionState' = "disconnected"

\* C21: explicit teardown is final. After the cleanup of the hook has run
\* (unmount, or the credential withdrawn by logout), from any state the
\* connection state ends in disconnected, every pending reconnect timer is
\* cancelled, and no transport connection is opened until a connect is
\* requested again.
C21_Step ==
    /\ C21_TimersCancelled
    /\ C21_NoNewTransport
    /\ C21_EndsDisconnected

C21_TeardownIsFinal == [][C21_Step]_vars

\* The last message of the transcript is an assistant message that is being
\* streamed.
LastIsStreaming == LastIsAssistant(messages) /\ isStreaming

\* What a text_chunk with the given fragment is to make of the transcript.
ExpectedAfterChunk(fragment) ==
    IF LastIsStreaming
    THEN ReplaceLast(messages, messages[Len(messages)].content \o fragment)
    ELSE Append(messages, AssistantMessage(fragment))

\* C22: on every text_chunk event, a last message that is an assistant
\* message being streamed is extended by the fragment; otherwise (empty
\* transcript, last message from the user, last message a finalized
\* assistant message) a new assistant message is appended whose content is
\* exactly the fragment; after any history, a lost connection included.
C22_Step ==
    \A w \in Slots, f \in Fragments :
        OnTextChunk(w, f) => messages' = ExpectedAfterChunk(f)

C22_PartialText == [][C22_Step]_vars

\* C23: after a conversation_started event is processed, the conversation
\* ID is bound to the acknowledged ID and stored for later resumption, and
\* the visible message list is empty, whatever was displayed before.
C23_Step ==
    \A w \in Slots :
        OnConversationStarted(w) =>
            /\ conversationIdRef' = nextConv
            /\ storedConversationId' = nextConv
            /\ messages' = << >>

C23_NewConversationStartsEmpty == [][C23_Step]_vars

\* C24: processing a complete event clears the streaming state and the
\* confirmation request shown in the UI, and nothing else: no frame (so no
\* confirm or cancel) is sent on any socket, no pending action of the
\* gateway is resolved, and the transcript is unchanged.
C24_Step ==
    \A w \in Slots :
        OnComplete(w) =>
            /\ ~isStreaming'
            /\ streamingContentRef' = << >>
            /\ confirmationRequest' = NoRequest
            /\ \A x \in Slots : ws'[x].sent = ws[x].sent
            /\ store' = store
            /\ messages' = messages

C24_TurnComplete == [][C24_Step]_vars

\* C24 witness: a complete event took a displayed confirmation request off
\* the UI while a transcript was on display, and no cancel went out.
C24_Witness ==
    /\ cleared = "complete"
    /\ confirmationRequest = NoRequest
    /\ cancelsSent = 0
    /\ ~isStreaming
    /\ messages # << >>

\* The request on display has reached its expiry.
CardExpired ==
    confirmationRequest # NoRequest /\ clock >= confirmationRequest.expiresAt

\* What the countdown does when it runs, and how often a cancel goes out.
C25_Step ==
    /\ UpdateTimeLeft =>
          /\ timeLeft' = Max(0, confirmationRequest.expiresAt - clock)
          /\ ~CardExpired => UNCHANGED <<confirmationRequest, ws>>
          /\ CardExpired =>
                /\ confirmationRequest' = NoRequest
                /\ IF IsOpen(Conn, wsRef)
                   THEN /\ CancelFrame(confirmationRequest.actionId)
                              \in ws'[wsRef].sent
                        /\ cancelsSent' = cancelsSent + 1
                   ELSE /\ \A x \in Slots : ws'[x].sent = ws[x].sent
                        /\ cancelsSent' = cancelsSent
    /\ cancelsSent' <= 1

C26_IsFractionLeft == Progress[1] * Window = Remaining * 100 * Progress[2]

\* The progress a render shows lies between 0 and 100 percent.
C26_InRange == 0 <= Progress[1] /\ Progress[1] <= 100 * Progress[2]

\* C26: whenever the card is on display, for every expiry timestamp and
\* every current time the progress of its indicator equals the time left
\* divided by the original approval window, and lies in [0, 1].
C26_CountdownProgress ==
    confirmationRequest # NoRequest => C26_IsFractionLeft /\ C26_InRange

\* C27: delivery by the hub is at-most-once and order-preserving. Events
\* being numbered in publish order, every event a subscriber takes from its
\* mailbox has been published and is later than every event it took before:
\* the events taken are a subsequence of the events published, none twice.
C27_Step ==
    \A h \in Handlers :
        HandleSSEEvent(h) =>
            /\ taken'[h] = Head(mailbox[h])
            /\ taken'[h] > taken[h]
            /\ taken'[h] \in 1..published

C27_AtMostOnceInOrder == [][C27_Step]_vars

\* C27 witness: a subscriber has taken the last event published and an
\* earlier one was dropped for it or taken by it; nothing is left in flight.
C27_Witness ==
    \E h \in Handlers :
        /\ taken[h] = MaxPublish
        /\ published = MaxPublish
        /\ mailbox[h] = << >>
        /\ broadcast = << >>

\* The close (or error and close) event of a socket that has been replaced
\* by reconnect or dropped by teardown is delivered in this step.
SupersededClose ==
    \E w \in Slots, failed \in BOOLEAN : w # wsRef /\ WsClosed(w, failed)

\* While the current transport is open the state is neither reconnecting
\* nor disconnected.
C28_OpenIsNotReconnecting ==
    IsOpen(Conn, wsRef) => connectionState \notin {"reconnecting", "disconnected"}

\* C28: the events of a superseded transport are inert: its close or error
\* event leaves the connection state, the attempt counter and the reconnect
\* timer as they are and reports nothing, so the state is never reconnecting
\* or disconnected while the current transport is open.
C28_Step ==
    /\ SupersededClose =>
          /\ UNCHANGED <<connectionState, reconnectAttemptsRef,
                         reconnectTimeoutRef>>
          /\ scheduled' = 0
          /\ surfaced' = NoError
    /\ C28_OpenIsNotReconnecting'

C28_SupersededEventsInert == [][C28_Step]_vars

\* Event e is waiting in the hub's queue.
Queued(e) == \E i \in DOMAIN broadcast : broadcast[i] = e

\* C29: with the hub loop scheduled fairly, every subscribe request and
\* every unsubscribe request is eventually processed, and every event
\* accepted into the hub's queue is eventually dispatched, whatever the
\* interleaving of subscribers connecting and disconnecting and of
\* publishers: neither the hub nor a handler gets stuck.
C29_HubLiveness ==
    /\ \A h \in Handlers : (hpc[h] = "registering") ~> (h \in clients)
    /\ \A h \in Handlers :
          (hpc[h] = "unregistering") ~> (hpc[h] = "done" /\ h \notin clients)
    /\ \A e \in 1..MaxQueued : Queued(e) ~> ~Queued(e)

\* C29 witness: a subscriber was registered and unregistered again with
\* events still in its mailbox, and every event published was dispatched.
C29_Witness ==
    /\ published = MaxQueued
    /\ broadcast = << >>
    /\ \E h \in Handlers :
          hpc[h] = "done" /\ closed[h] = 1 /\ mailbox[h] # << >>

\* The panel shows its suggestion buttons: the user is logged in, the
\* transcript is empty and the connection state is not connecting.
SuggestionsShown ==
    jwt # 0 /\ messages = << >> /\ connectionState # "connecting"

\* C30: every user message that sendMessage appends to the visible
\* transcript has also been transmitted to the server as a message frame;
\* sendMessage never adds a user message locally while the transport is
\* not open (connecting, reconnecting, disconnected or error).
C30_Step ==
    \A i \in UserInputs :
        SendMessage(i) =>
            /\ IsOpen(Conn, wsRef)
            /\ connectionState = "connected"
            /\ UserMessage \in ws'[wsRef].sent

C30_TranscriptServerConsistency == [][C30_Step]_vars

=============================================================================
